---- MODULE Spec2Model ----
(***************************************************************************)
(* Model of pkg/html_extractor/runner.py: the HTMLExtractor class (source  *)
(* classification, HTTP fetch, the Playwright renderer, the BeautifulSoup  *)
(* renderer, the two writers, extract_and_enhance) and main().             *)
(*                                                                         *)
(* A string is a sequence of lexical tokens.  "s:" is a URL scheme with    *)
(* its colon, "//h" a network location, "//[" a network location with an   *)
(* unbalanced IPv6 bracket; the other tokens are HTML markup.  The token    *)
(* "<script#data/>" is a complete                                           *)
(*   <script id="html-extractor-data" type="application/json">..</script>  *)
(* element.                                                                *)
(***************************************************************************)
EXTENDS Integers, Sequences, FiniteSets, TLC

\* ------------------------------------------------------------------ bounds
MaxSrcLen == 2      \* tokens in a source string given to main()
MaxHtmlLen == 2     \* tokens in a file's contents or an HTTP response body
MaxDocLen == 4      \* tokens in a document handed to the static renderer
MaxPasses == 3      \* re-processings of the static renderer's own output

OpenTok == {"<html>", "<body>"}
CloseTok == {"</html>", "</body>"}
ScriptTok == "<script#data/>"
\* tokens of command-line sources, file contents and response bodies
SrcTok == {"s:", "//h", "//[", "<html>"}
\* tokens of documents handed to the static renderer directly
DocTok == {"s:", "<html>", "</html>", "<body>", "</body>", ScriptTok}

StringsOver(T, n) == UNION {[1..k -> T] : k \in 0..n}

\* --------------------------------------------------------------- urlparse
\* urllib.parse.urlparse: the scheme is what precedes the first colon, the
\* network location follows a leading "//"; an unbalanced "[" in it raises
\* ValueError.
urlparse(source) ==
    LET scheme == IF Len(source) >= 1 /\ source[1] = "s:" THEN "s" ELSE ""
        rest == IF scheme = "" THEN source ELSE Tail(source)
    IN  IF Len(rest) >= 1 /\ rest[1] = "//["
        THEN [raised |-> "ValueError", scheme |-> scheme, netloc |-> ""]
        ELSE [raised |-> "",
              scheme |-> scheme,
              netloc |-> IF Len(rest) >= 1 /\ rest[1] = "//h" THEN "h" ELSE ""]

\* HTMLExtractor.is_url: all([scheme, netloc]); ValueError gives False.
is_url(source) ==
    LET result == urlparse(source)
    IN  IF result.raised = "ValueError"
        THEN FALSE
        ELSE result.scheme # "" /\ result.netloc # ""

\* ---------------------------------------------------- BeautifulSoup tree
\* The tree built by BeautifulSoup(html, "html.parser") is kept in
\* document order, one record per node with its depth.  A start tag opens
\* an element; an end tag closes the nearest open element of that name
\* together with everything opened inside it, and is dropped when no such
\* element is open; the end of input closes whatever is still open.  Text
\* and the script element are leaves.  The parser adds no element of its
\* own.
NameOf(tok) == IF tok \in {"<html>", "</html>"} THEN "html" ELSE "body"
CloseOf(name) == IF name = "html" THEN "</html>" ELSE "</body>"
Node(tok, depth) == [tok |-> tok, depth |-> depth]

\* index in the stack of the nearest open element called name, 0 if none
RECURSIVE NearestOpen(_, _, _)
NearestOpen(stack, name, i) ==
    IF i = 0 THEN 0
    ELSE IF stack[i] = name THEN i
    ELSE NearestOpen(stack, name, i - 1)

RECURSIVE ParseFrom(_, _, _)
ParseFrom(html, i, stack) ==
    IF i > Len(html) THEN <<>>
    ELSE LET tok == html[i] IN
         IF tok \in OpenTok
         THEN <<Node(tok, Len(stack))>>
              \o ParseFrom(html, i + 1, Append(stack, NameOf(tok)))
         ELSE IF tok \in CloseTok
         THEN LET k == NearestOpen(stack, NameOf(tok), Len(stack)) IN
              IF k = 0
              THEN ParseFrom(html, i + 1, stack)
              ELSE ParseFrom(html, i + 1, SubSeq(stack, 1, k - 1))
         ELSE <<Node(tok, Len(stack))>> \o ParseFrom(html, i + 1, stack)

BeautifulSoup(html) == ParseFrom(html, 1, <<>>)

\* soup.find(name): index of the first such element, 0 when there is none
RECURSIVE FindFrom(_, _, _)
FindFrom(soup, tok, i) ==
    IF i > Len(soup) THEN 0
    ELSE IF soup[i].tok = tok THEN i
    ELSE FindFrom(soup, tok, i + 1)

find(soup, tok) == FindFrom(soup, tok, 1)

\* index of the last node of the subtree rooted at index i
RECURSIVE SubtreeEnd(_, _, _)
SubtreeEnd(soup, i, j) ==
    IF j + 1 > Len(soup) THEN j
    ELSE IF soup[j + 1].depth > soup[i].depth THEN SubtreeEnd(soup, i, j + 1)
    ELSE j

\* Tag.append: the new node becomes the last child of the element at i
TagAppend(soup, i, tok) ==
    LET e == SubtreeEnd(soup, i, i)
    IN  SubSeq(soup, 1, e) \o <<Node(tok, soup[i].depth + 1)>>
        \o SubSeq(soup, e + 1, Len(soup))

\* len(soup.find_all(...)) for one kind of node
RECURSIVE CountNodes(_, _)
CountNodes(soup, tok) ==
    IF soup = <<>> THEN 0
    ELSE (IF Head(soup).tok = tok THEN 1 ELSE 0) + CountNodes(Tail(soup), tok)

RECURSIVE CloseAll(_)
CloseAll(stack) ==
    IF stack = <<>> THEN <<>>
    ELSE <<CloseOf(stack[Len(stack)])>> \o CloseAll(SubSeq(stack, 1, Len(stack) - 1))

\* str(soup): every element is written with its start tag, its children
\* and its end tag
RECURSIVE SerializeFrom(_, _, _)
SerializeFrom(soup, i, stack) ==
    IF i > Len(soup) THEN CloseAll(stack)
    ELSE LET d == soup[i].depth
             keep == SubSeq(stack, 1, d)
             closed == CloseAll(SubSeq(stack, d + 1, Len(stack)))
         IN  closed \o <<soup[i].tok>>
             \o SerializeFrom(soup, i + 1,
                    IF soup[i].tok \in OpenTok
                    THEN Append(keep, NameOf(soup[i].tok))
                    ELSE keep)

Serialize(soup) == SerializeFrom(soup, 1, <<>>)

\* occurrences of a token in a string
RECURSIVE CountTok(_, _)
CountTok(s, tok) ==
    IF s = <<>> THEN 0
    ELSE (IF Head(s) = tok THEN 1 ELSE 0) + CountTok(Tail(s), tok)

\* ------------------------------------------------------ process_with_basic
BasicStats == "map:basic_stats"

\* a renderer that replaces the script element of an earlier pass
InsertScript_Replace(soup) ==
    LET clean == SelectSeq(soup, LAMBDA n : n.tok # ScriptTok)
    IN  IF find(clean, "<body>") # 0
        THEN [raised |-> "", soup |-> TagAppend(clean, find(clean, "<body>"), ScriptTok)]
        ELSE IF find(clean, "<html>") # 0
        THEN LET withBody == TagAppend(clean, find(clean, "<html>"), "<body>")
             IN  [raised |-> "",
                  soup |-> TagAppend(withBody, find(withBody, "<body>"), ScriptTok)]
        ELSE [raised |-> "AttributeError", soup |-> soup]

\* lines 200-204 and 206-210: the script element is appended to soup.body;
\* without a body one is first appended to soup.html.  soup.html is None
\* when the tree has no html element, and None.append raises AttributeError.
InsertScript(soup) ==
    IF find(soup, "<body>") # 0
    THEN [raised |-> "", soup |-> TagAppend(soup, find(soup, "<body>"), ScriptTok)]
    ELSE IF find(soup, "<html>") # 0
    THEN LET withBody == TagAppend(soup, find(soup, "<html>"), "<body>")
         IN  [raised |-> "",
              soup |-> TagAppend(withBody, find(withBody, "<body>"), ScriptTok)]
    ELSE [raised |-> "AttributeError", soup |-> soup]

process_with_basic(html) ==
    LET soup == BeautifulSoup(html)
        ins == InsertScript(soup)
    IN  [raised |-> ins.raised,
         html |-> IF ins.raised = "" THEN Serialize(ins.soup) ELSE <<>>,
         data |-> IF ins.raised = "" THEN BasicStats ELSE "none"]

\* ------------------------------------------------------------------- JSON
\* Texts the page can hold in #html-extractor-data.  "{}" is also what the
\* second page.evaluate returns when the element is absent.
JsonTexts == {"{}", "{\"statistics\":{}}", "[1]", "{bad"}
EmptyMapping == "map:empty"

json_loads(text) ==
    IF text = "{}" THEN [raised |-> "", value |-> EmptyMapping]
    ELSE IF text = "{\"statistics\":{}}" THEN [raised |-> "", value |-> "map:statistics"]
    ELSE IF text = "[1]" THEN [raised |-> "", value |-> "list"]
    ELSE [raised |-> "JSONDecodeError", value |-> "none"]

\* a decoder without the except clause
DecodeExtractionData_Propagate(text) ==
    [raised |-> json_loads(text).raised, value |-> json_loads(text).value]

\* lines 160-164: a JSONDecodeError is logged and replaced by {}
DecodeExtractionData(text) ==
    LET r == json_loads(text)
    IN  IF r.raised = "JSONDecodeError"
        THEN [raised |-> "", value |-> EmptyMapping]
        ELSE [raised |-> "", value |-> r.value]

\* DOM serialised by the browser: always a full html/body document
PageContent == <<"<html>", "<body>", "</body>", "</html>">>

\* ------------------------------------------------------------ process_html
\* lines 225-234: the file test comes first, then the URL test
Classify(isFile, source) ==
    IF isFile THEN "file"
    ELSE IF is_url(source) THEN "url"
    ELSE "literal"

\* a URL that is fetched before use_playwright is looked at
UrlBranch_AlwaysFetch(usePlaywright) == "fetch_url"

\* lines 228-231: a URL goes straight to Playwright when it is in use
UrlBranch(usePlaywright) == IF usePlaywright THEN "playwright" ELSE "fetch_url"

\* lines 237-239
Dispatch(usePlaywright) == IF usePlaywright THEN "playwright" ELSE "basic"

\* line 230 without its return: control falls through to fetch_url
AfterPlaywright_NoReturn(callSite) ==
    IF callSite = 230 THEN "fetch_url" ELSE "rendered"

\* lines 230 and 238: both calls of process_with_playwright are returned
AfterPlaywright(callSite) == "rendered"

\* lines 141-144: the renderer tests its own argument
LoadMethod(arg) == IF is_url(arg) THEN "goto" ELSE "set_content"

\* a handler that starts process_html again instead of re-raising
ExceptTarget_Retry == "constructed"

\* lines 307-309: log, then re-raise
ExceptTarget == "raised"

\* a constructor without the existence test that goes on without a script
ConstructOutcome_NoCheck(inj) ==
    IF inj = "unreadable" THEN "OSError" ELSE ""

\* lines 53-58: FileNotFoundError when injector.js is missing, else read it
ConstructOutcome(inj) ==
    IF inj = "missing" THEN "FileNotFoundError"
    ELSE IF inj = "unreadable" THEN "OSError"
    ELSE ""

\* ------------------------------------------------------------------ state
VARIABLES
    pc,                   \* position of the single thread of control
    source,               \* args.source
    isFile,               \* os.path.isfile(source)
    noPlaywrightFlag,     \* args.no_playwright
    playwrightAvailable,  \* PLAYWRIGHT_AVAILABLE
    injector,             \* injector.js: "present", "missing", "unreadable"
    output_data,          \* TRUE when --data was given
    use_playwright,       \* self.use_playwright
    kind,                 \* branch of process_html taken for the source
    html,                 \* local html of process_html / parameter of process_with_basic
    arg,                  \* parameter source of process_with_playwright
    callSite,             \* line of the process_with_playwright call
    browser,              \* "none", "launched", "closed"
    pageLoad,             \* "none", "goto", "set_content"
    extraction_data_json, \* text returned by the second page.evaluate
    extraction_data,      \* local extraction_data of process_with_playwright
    enhanced_html,        \* local enhanced_html of process_with_playwright
    result,               \* tuple returned by process_html
    exc,                  \* exception in flight, "" when none
    failed,               \* operation that raised, "" when none
    trace,                \* operations attempted, in order
    exitCode              \* -1 while running

vars == <<pc, source, isFile, noPlaywrightFlag, playwrightAvailable, injector,
          output_data, use_playwright, kind, html, arg, callSite, browser,
          pageLoad, extraction_data_json, extraction_data, enhanced_html,
          result, exc, failed, trace, exitCode>>

envVars == <<source, isFile, noPlaywrightFlag, playwrightAvailable, injector,
             output_data>>
pwVars == <<arg, callSite, browser, pageLoad, extraction_data_json,
            extraction_data, enhanced_html>>

NoResult == [html |-> <<>>, data |-> "none"]

Idle ==
    /\ use_playwright = FALSE
    /\ kind = "none"
    /\ arg = <<>>
    /\ callSite = 0
    /\ browser = "none"
    /\ pageLoad = "none"
    /\ extraction_data_json = ""
    /\ extraction_data = "none"
    /\ enhanced_html = <<>>
    /\ result = NoResult
    /\ exc = ""
    /\ failed = ""
    /\ trace = <<>>
    /\ exitCode = -1

\* main() is started with any command line, file system and installation
Init ==
    /\ pc = "main"
    /\ source \in StringsOver(SrcTok, MaxSrcLen)
    /\ isFile \in BOOLEAN
    /\ isFile => source # <<>>
    /\ noPlaywrightFlag \in BOOLEAN
    /\ playwrightAvailable \in BOOLEAN
    /\ injector \in {"present", "missing", "unreadable"}
    /\ output_data \in BOOLEAN
    /\ html = <<>>
    /\ Idle

Raise(e, op) ==
    /\ exc' = e
    /\ failed' = op
    /\ pc' = "except"

\* HTMLExtractor.__init__, called from main()
Construct ==
    /\ pc = "main"
    /\ use_playwright' = (~noPlaywrightFlag /\ playwrightAvailable)
    /\ IF ConstructOutcome(injector) = ""
       THEN /\ pc' = "constructed"
            /\ UNCHANGED <<exc, failed>>
       ELSE /\ pc' = "main_except"
            /\ exc' = ConstructOutcome(injector)
            /\ failed' = "__init__"
    /\ UNCHANGED <<envVars, pwVars, kind, html, result, trace, exitCode>>

\* extract_and_enhance enters process_html: lines 225-234
ProcessHtml ==
    /\ pc = "constructed"
    /\ kind' = Classify(isFile, source)
    /\ IF Classify(isFile, source) = "file"
       THEN /\ pc' = "read_html_file"
            /\ UNCHANGED <<html, arg, callSite, trace>>
       ELSE IF Classify(isFile, source) = "url"
       THEN IF UrlBranch(use_playwright) = "playwright"
            THEN /\ pc' = "launch"
                 /\ arg' = source
                 /\ callSite' = 230
                 /\ trace' = Append(trace, "process_with_playwright")
                 /\ UNCHANGED html
            ELSE /\ pc' = "fetch_url"
                 /\ UNCHANGED <<html, arg, callSite, trace>>
       ELSE /\ pc' = "dispatch"
            /\ html' = source
            /\ UNCHANGED <<arg, callSite, trace>>
    /\ UNCHANGED <<envVars, use_playwright, browser, pageLoad,
                   extraction_data_json, extraction_data, enhanced_html,
                   result, exc, failed, exitCode>>

\* read_html_file: open and read, either of which may raise
ReadHtmlFile ==
    /\ pc = "read_html_file"
    /\ trace' = Append(trace, "read_html_file")
    /\ \/ /\ \E content \in StringsOver(SrcTok, MaxHtmlLen) : html' = content
          /\ pc' = "dispatch"
          /\ UNCHANGED <<exc, failed>>
       \/ /\ Raise("OSError", "read_html_file")
          /\ UNCHANGED html
    /\ UNCHANGED <<envVars, pwVars, use_playwright, kind, result, exitCode>>

\* fetch_url: requests.get and raise_for_status, either of which may raise
FetchUrl ==
    /\ pc = "fetch_url"
    /\ trace' = Append(trace, "fetch_url")
    /\ \/ /\ \E body \in StringsOver(SrcTok, MaxHtmlLen) : html' = body
          /\ pc' = "dispatch"
          /\ UNCHANGED <<exc, failed>>
       \/ /\ Raise("RequestException", "fetch_url")
          /\ UNCHANGED html
    /\ UNCHANGED <<envVars, pwVars, use_playwright, kind, result, exitCode>>

\* lines 237-239
DispatchRenderer ==
    /\ pc = "dispatch"
    /\ IF Dispatch(use_playwright) = "playwright"
       THEN /\ pc' = "launch"
            /\ arg' = html
            /\ callSite' = 238
            /\ trace' = Append(trace, "process_with_playwright")
       ELSE /\ pc' = "basic"
            /\ UNCHANGED <<arg, callSite, trace>>
    /\ UNCHANGED <<envVars, use_playwright, kind, html, browser, pageLoad,
                   extraction_data_json, extraction_data, enhanced_html,
                   result, exc, failed, exitCode>>

\* ------------------------------------------------- process_with_playwright
\* Every call into Playwright either returns or raises.  An exception
\* raised before the try statement of line 139 leaves the with block of
\* line 135 directly; one raised inside it runs the finally clause first.
PwUnchanged == <<envVars, use_playwright, kind, html, arg, callSite, result,
                 failed, trace, exitCode>>

\* line 136: p.chromium.launch
Launch ==
    /\ pc = "launch"
    /\ \/ /\ browser' = "launched"
          /\ pc' = "new_page"
          /\ UNCHANGED exc
       \/ /\ exc' = "PlaywrightError"
          /\ pc' = "playwright_exit"
          /\ UNCHANGED browser
    /\ UNCHANGED <<PwUnchanged, pageLoad, extraction_data_json,
                   extraction_data, enhanced_html>>

\* line 137: browser.new_page, outside the try statement
NewPage ==
    /\ pc = "new_page"
    /\ \/ /\ pc' = "load"
          /\ UNCHANGED exc
       \/ /\ exc' = "PlaywrightError"
          /\ pc' = "playwright_exit"
    /\ UNCHANGED <<PwUnchanged, browser, pageLoad, extraction_data_json,
                   extraction_data, enhanced_html>>

\* lines 141-144: page.goto or page.set_content
LoadContent ==
    /\ pc = "load"
    /\ pageLoad' = LoadMethod(arg)
    /\ \/ /\ pc' = "inject"
          /\ UNCHANGED exc
       \/ /\ exc' = "PlaywrightError"
          /\ pc' = "finally"
    /\ UNCHANGED <<PwUnchanged, browser, extraction_data_json,
                   extraction_data, enhanced_html>>

\* lines 147-150: page.evaluate(injector_script); a falsy result only logs
Inject ==
    /\ pc = "inject"
    /\ \/ /\ pc' = "pull_data"
          /\ UNCHANGED exc
       \/ /\ exc' = "PlaywrightError"
          /\ pc' = "finally"
    /\ UNCHANGED <<PwUnchanged, browser, pageLoad, extraction_data_json,
                   extraction_data, enhanced_html>>

\* lines 153-158: text of #html-extractor-data, "{}" when it is absent
PullData ==
    /\ pc = "pull_data"
    /\ \/ /\ \E text \in JsonTexts : extraction_data_json' = text
          /\ pc' = "decode"
          /\ UNCHANGED exc
       \/ /\ exc' = "PlaywrightError"
          /\ pc' = "finally"
          /\ UNCHANGED extraction_data_json
    /\ UNCHANGED <<PwUnchanged, browser, pageLoad, extraction_data,
                   enhanced_html>>

\* lines 160-164
Decode ==
    /\ pc = "decode"
    /\ IF DecodeExtractionData(extraction_data_json).raised = ""
       THEN /\ extraction_data' = DecodeExtractionData(extraction_data_json).value
            /\ pc' = "content"
            /\ UNCHANGED exc
       ELSE /\ exc' = DecodeExtractionData(extraction_data_json).raised
            /\ pc' = "finally"
            /\ UNCHANGED extraction_data
    /\ UNCHANGED <<PwUnchanged, browser, pageLoad, extraction_data_json,
                   enhanced_html>>

\* line 167: page.content
Content ==
    /\ pc = "content"
    /\ \/ /\ enhanced_html' = PageContent
          /\ pc' = "finally"
          /\ UNCHANGED exc
       \/ /\ exc' = "PlaywrightError"
          /\ pc' = "finally"
          /\ UNCHANGED enhanced_html
    /\ UNCHANGED <<PwUnchanged, browser, pageLoad, extraction_data_json,
                   extraction_data>>

\* lines 171-172: finally: browser.close()
BrowserClose ==
    /\ pc = "finally"
    /\ browser' = "closed"
    /\ pc' = "playwright_exit"
    /\ UNCHANGED <<PwUnchanged, pageLoad, extraction_data_json,
                   extraction_data, enhanced_html, exc>>

\* end of the with block: the tuple is returned or the exception goes on
PlaywrightExit ==
    /\ pc = "playwright_exit"
    /\ IF exc = ""
       THEN /\ result' = [html |-> enhanced_html, data |-> extraction_data]
            /\ pc' = AfterPlaywright(callSite)
            /\ UNCHANGED failed
       ELSE /\ failed' = "process_with_playwright"
            /\ pc' = "except"
            /\ UNCHANGED result
    /\ UNCHANGED <<envVars, pwVars, use_playwright, kind, html, exc, trace,
                   exitCode>>

\* ------------------------------------------------------ the static renderer
ProcessWithBasic ==
    /\ pc = "basic"
    /\ trace' = Append(trace, "process_with_basic")
    /\ IF process_with_basic(html).raised = ""
       THEN /\ result' = [html |-> process_with_basic(html).html,
                          data |-> process_with_basic(html).data]
            /\ pc' = "rendered"
            /\ UNCHANGED <<exc, failed>>
       ELSE /\ Raise(process_with_basic(html).raised, "process_with_basic")
            /\ UNCHANGED result
    /\ UNCHANGED <<envVars, pwVars, use_playwright, kind, html, exitCode>>

\* ------------------------------------------------------ extract_and_enhance
\* line 299: save_html (makedirs, open, write)
SaveHtml ==
    /\ pc = "rendered"
    /\ trace' = Append(trace, "save_html")
    /\ \/ /\ pc' = IF output_data THEN "save_extraction_data" ELSE "returned"
          /\ UNCHANGED <<exc, failed>>
       \/ Raise("OSError", "save_html")
    /\ UNCHANGED <<envVars, pwVars, use_playwright, kind, html, result, exitCode>>

\* lines 302-303: save_extraction_data (makedirs, open, json.dump)
SaveExtractionData ==
    /\ pc = "save_extraction_data"
    /\ trace' = Append(trace, "save_extraction_data")
    /\ \/ /\ pc' = "returned"
          /\ UNCHANGED <<exc, failed>>
       \/ Raise("OSError", "save_extraction_data")
    /\ UNCHANGED <<envVars, pwVars, use_playwright, kind, html, result, exitCode>>

\* lines 307-309: the handler of extract_and_enhance
Except ==
    /\ pc = "except"
    /\ pc' = ExceptTarget
    /\ UNCHANGED <<envVars, pwVars, use_playwright, kind, html, result, exc,
                   failed, trace, exitCode>>

\* ------------------------------------------------------------------- main
\* lines 343-352: the summary; result.get needs a mapping
MainSummary ==
    /\ pc = "returned"
    /\ pc' = "exit"
    /\ IF result.data = "list"
       THEN /\ exc' = "AttributeError"
            /\ failed' = "main"
            /\ exitCode' = 1
       ELSE /\ exitCode' = 0
            /\ UNCHANGED <<exc, failed>>
    /\ UNCHANGED <<envVars, pwVars, use_playwright, kind, html, result, trace>>

\* lines 354-356
MainExcept ==
    /\ pc \in {"raised", "main_except"}
    /\ pc' = "exit"
    /\ exitCode' = 1
    /\ UNCHANGED <<envVars, pwVars, use_playwright, kind, html, result, exc,
                   failed, trace>>

Next ==
    \/ Construct
    \/ ProcessHtml
    \/ ReadHtmlFile
    \/ FetchUrl
    \/ DispatchRenderer
    \/ Launch
    \/ NewPage
    \/ LoadContent
    \/ Inject
    \/ PullData
    \/ Decode
    \/ Content
    \/ BrowserClose
    \/ PlaywrightExit
    \/ ProcessWithBasic
    \/ SaveHtml
    \/ SaveExtractionData
    \/ Except
    \/ MainSummary
    \/ MainExcept

Spec == Init /\ [][Next]_vars

\* ------------------------------------------- re-processing of the output
\* A caller hands a document to process_with_basic and then hands each
\* returned document to it again.
Passes == CountTok(trace, "process_with_basic")

InitBasic ==
    /\ pc = "basic"
    /\ source = <<>>
    /\ isFile = FALSE
    /\ noPlaywrightFlag = TRUE
    /\ playwrightAvailable = FALSE
    /\ injector = "present"
    /\ output_data = FALSE
    /\ html \in StringsOver(DocTok, MaxDocLen)
    /\ Idle

Reprocess ==
    /\ pc = "rendered"
    /\ Passes < MaxPasses
    /\ html' = result.html
    /\ pc' = "basic"
    /\ UNCHANGED <<envVars, pwVars, use_playwright, kind, result, exc, failed,
                   trace, exitCode>>

NextBasic ==
    \/ ProcessWithBasic
    \/ Reprocess

SpecBasic == InitBasic /\ [][NextBasic]_vars

\* ------------------------------------------------------------- properties
Count(op) == CountTok(trace, op)
Renders == Count("process_with_playwright") + Count("process_with_basic")

\* positions inside process_with_playwright
PlaywrightPcs == {"launch", "new_page", "load", "inject", "pull_data",
                  "decode", "content", "finally", "playwright_exit"}

\* positions of extract_and_enhance after process_html has returned
AfterProcessHtml == {"rendered", "save_extraction_data", "returned"}

\* order of the steps of one invocation
Rank(op) ==
    IF op \in {"read_html_file", "fetch_url"} THEN 1
    ELSE IF op \in {"process_with_playwright", "process_with_basic"} THEN 2
    ELSE IF op = "save_html" THEN 3
    ELSE 4

\* C1: process_with_basic never raises, whatever document it is given,
\* also one without a body element and without an html element.
C1_BasicNeverFails ==
    failed # "process_with_basic"

\* C2: once the browser has been launched, process_with_playwright is never
\* left, by return or by exception, with the browser still open.
C2_BrowserClosedOnEveryExit ==
    (pc \notin PlaywrightPcs /\ browser # "none") => browser = "closed"

\* C3: an invocation of process_html runs at most one renderer, at most
\* once, and exactly one when it returns.
C3_ExactlyOneRenderer ==
    /\ Renders <= 1
    /\ pc \in AfterProcessHtml => Renders = 1
    /\ result # NoResult => Renders = 1

C3_Witness ==
    /\ pc = "returned"
    /\ kind = "url"
    /\ callSite = 230
    /\ Count("process_with_playwright") = 1

\* C4: fetch_url is called exactly when Playwright is not in use and the
\* source is neither an existing file nor anything but a URL; an invocation
\* that runs the browser renderer never calls it.
C4_FetchIffUrlWithoutBrowser ==
    /\ Count("fetch_url") > 0 => (~use_playwright /\ ~isFile /\ is_url(source))
    /\ (pc = "exit" /\ kind # "none" /\ ~use_playwright /\ ~isFile /\ is_url(source))
           => Count("fetch_url") = 1
    /\ Count("process_with_playwright") > 0 => Count("fetch_url") = 0

C4_Witness ==
    /\ pc = "exit"
    /\ exitCode = 0
    /\ Count("fetch_url") = 1
    /\ Count("process_with_basic") = 1

C6_FileBeforeUrl ==
    /\ (isFile /\ kind # "none") =>
           /\ kind = "file"
           /\ pageLoad # "goto"
           /\ Count("fetch_url") = 0
    /\ kind = "url" => (~isFile /\ is_url(source))
    /\ kind = "literal" => (~isFile /\ ~is_url(source))

\* C10: the browser renderer navigates only when the source of the
\* invocation was classified as a URL; for a file or literal HTML it sets
\* the page content, whatever the payload is.
C10_NavigateOnlyForUrlSource ==
    /\ pageLoad = "goto" => kind = "url"
    /\ (pageLoad # "none" /\ kind \in {"file", "literal"}) => pageLoad = "set_content"

\* C7 as stated: re-processing the static renderer's own output gives a
\* document with exactly one html-extractor-data script element.
C7_ReprocessedHasOneScript ==
    (pc = "rendered" /\ Passes >= 2) => CountTok(result.html, ScriptTok) = 1

\* C7 amended: every pass appends one script element and removes none: the
\* returned document has one more than the parsed input, so the output of
\* the k-th consecutive pass has at least k of them (two after the first
\* re-processing).
C7_EachPassAppendsOne ==
    pc = "rendered" =>
        /\ CountTok(result.html, ScriptTok)
               = CountNodes(BeautifulSoup(html), ScriptTok) + 1
        /\ CountTok(result.html, ScriptTok) >= Passes

C7_Witness ==
    /\ pc = "rendered"
    /\ Passes = 2
    /\ CountTok(result.html, ScriptTok) = 2

\* C8: the steps of one invocation (read or fetch, render, HTML write,
\* data write) are attempted in that order and at most once each; the first
\* one that raises is the last one attempted, and its exception reaches the
\* caller, which exits with status 1.
C8_StepsOnceInOrderFailFast ==
    /\ \A i, j \in 1..Len(trace) : i < j => Rank(trace[i]) < Rank(trace[j])
    /\ Count("read_html_file") + Count("fetch_url") <= 1
    /\ failed \notin {"", "__init__", "main"} =>
           /\ trace # <<>>
           /\ trace[Len(trace)] = failed
           /\ pc \in {"except", "raised", "exit"}
           /\ result = NoResult => Count("save_html") = 0
           /\ pc = "exit" => exitCode = 1

C8_Witness ==
    /\ pc = "exit"
    /\ failed = "save_html"
    /\ output_data
    /\ Count("save_extraction_data") = 0
    /\ exitCode = 1

\* C9: with injector.js missing the constructor raises, with or without
\* Playwright, before anything is read, fetched, rendered or written, and
\* main exits with status 1.
C9_MissingInjectorFailsConstruction ==
    injector = "missing" =>
        /\ pc \in {"main", "main_except", "exit"}
        /\ trace = <<>>
        /\ kind = "none"
        /\ browser = "none"
        /\ result = NoResult
        /\ pc # "main" => (exc = "FileNotFoundError" /\ failed = "__init__")
        /\ pc = "exit" => exitCode = 1

C9_Witness ==
    /\ injector = "missing"
    /\ noPlaywrightFlag
    /\ pc = "exit"
    /\ exitCode = 1

====
